---- MODULE Spec2Model ----
(***************************************************************************)
(* A model of swift/proxy/server.py (class Application): the per-node      *)
(* error-suppression state kept on the node dictionaries (error_limited,   *)
(* error_limit, error_occurred, exception_occurred), the node sorter       *)
(* (sort_nodes, set_node_timing) and the node iterator (iter_nodes), a     *)
(* generator whose frame is suspended at its two yield statements while    *)
(* its consumer and other requests change the node dictionaries and the    *)
(* clock advances.                                                         *)
(***************************************************************************)
EXTENDS Integers, Sequences, FiniteSets, TLC

(***************************************************************************)
(* Bounds of the model.                                                    *)
(***************************************************************************)
\* time() takes the values 0..MaxTime
MaxTime == 2
\* error_occurred / error_limit calls made by the consumer and by other
\* requests in one behaviour of the iterator specifications
MaxErrorCalls == 2
\* largest value of node['errors'] the model lets error_occurred reach
MaxErrors == 3
\* times one request environment is handed to __call__
MaxPasses == 2

VARIABLES
    conf,           \* the configuration read by __init__
    ring,           \* [part_nodes, more_nodes]: the ring's answer for the partition
    now,            \* time()
    node,           \* node name -> the node dictionary's 'errors'/'last_error' keys
    node_timings,   \* self.node_timings: ip -> [timing, expires]
    last_call,      \* the last health call made from outside iter_nodes: the
                    \* operation, its node, the node's dictionary before it,
                    \* the time, and what error_limited returned
    error_calls,    \* number of error_occurred / error_limit calls so far
    it_pc,          \* the generator frame: "idle", "primary", "handoff", "done"
    it_source,      \* node_iter as the generator found it at its first step
    primary_nodes,  \* iter_nodes' primary_nodes (sorted)
    handoff_nodes,  \* what is left of node_iter
    it_idx,         \* position of the primary loop in primary_nodes
    it_node,        \* the loop variable `node` (the node last yielded)
    nodes_left,     \* iter_nodes' nodes_left
    handoffs,       \* iter_nodes' handoffs
    metrics,        \* logger.increment counts: handoff_count, handoff_all_count
    yielded,        \* the nodes yielded so far, in order
    skipped,        \* the nodes the loops passed over as error limited
    replaced,       \* how many yielded nodes were error limited at resume
    env,            \* the WSGI environment of the request: key -> value
    entry_env,      \* env as __call__ was handed it on the current pass
    rq_pc,          \* where the request is: "none", "wsgi", "handle_request",
                    \* "authorize" (in the hook), "handler" (in the
                    \* handler), "responded"
    controller,     \* handle_request's controller (an instance, or none)
    handler,        \* handle_request's handler: the attributes of the method
    response,       \* what handle_request returned
    events,         \* what the pipeline did to its collaborators, in order
    passes          \* how many times the environment entered __call__

vars == <<conf, ring, now, node, node_timings, last_call, error_calls,
          it_pc, it_source, primary_nodes, handoff_nodes, it_idx, it_node,
          nodes_left, handoffs, metrics, yielded, skipped, replaced,
          env, entry_env, rq_pc, controller, handler, response, events,
          passes>>

rqvars == <<env, entry_env, rq_pc, controller, handler, response, events,
            passes>>

itvars == <<it_pc, it_source, primary_nodes, handoff_nodes, it_idx, it_node,
            nodes_left, handoffs, metrics, yielded, skipped, replaced>>

(***************************************************************************)
(* Node dictionaries.  A dictionary is a function whose domain is the set  *)
(* of keys present; only the two mutable keys are modelled (ip, port and   *)
(* device are the node's name).                                            *)
(***************************************************************************)
Nodes == {"P1", "P2", "P3", "H1", "H2", "H3", "H4", "H5"}

NoNode == "none"

EmptyDict == [k \in {} |-> 0]

DictSet(d, k, v) == [x \in DOMAIN d \cup {k} |-> IF x = k THEN v ELSE d[x]]

DictDel(d, k) == [x \in DOMAIN d \ {k} |-> d[x]]

NodeIp(n) == n

RingNodes == {ring.part_nodes[i] : i \in 1..Len(ring.part_nodes)}
             \cup {ring.more_nodes[i] : i \in 1..Len(ring.more_nodes)}

(***************************************************************************)
(* The node-health operations.  Each takes the node dictionary and the     *)
(* value of time() and gives the dictionary afterwards; error_limited      *)
(* also gives its return value.                                            *)
(***************************************************************************)
\* an expiry that forgets the errors key
error_limited_KeepsErrors(d, t) ==
    IF "errors" \notin DOMAIN d
    THEN [limited |-> FALSE, node |-> d]
    ELSE IF "last_error" \in DOMAIN d
            /\ d["last_error"] < t - conf.error_suppression_interval
         THEN [limited |-> FALSE, node |-> DictDel(d, "last_error")]
         ELSE [limited |-> d["errors"] > conf.error_suppression_limit,
               node |-> d]

\* a threshold reached at the limit itself
error_limited_AtLimit(d, t) ==
    IF "errors" \notin DOMAIN d
    THEN [limited |-> FALSE, node |-> d]
    ELSE IF "last_error" \in DOMAIN d
            /\ d["last_error"] < t - conf.error_suppression_interval
         THEN [limited |-> FALSE,
               node |-> DictDel(DictDel(d, "last_error"), "errors")]
         ELSE [limited |-> d["errors"] >= conf.error_suppression_limit,
               node |-> d]

error_limited(d, t) ==
    IF "errors" \notin DOMAIN d
    THEN [limited |-> FALSE, node |-> d]
    ELSE IF "last_error" \in DOMAIN d
            /\ d["last_error"] < t - conf.error_suppression_interval
         THEN [limited |-> FALSE,
               node |-> DictDel(DictDel(d, "last_error"), "errors")]
         ELSE [limited |-> d["errors"] > conf.error_suppression_limit,
               node |-> d]

\* a forced count that stops at the limit
error_limit_AtLimit(d, t) ==
    DictSet(DictSet(d, "errors", conf.error_suppression_limit),
            "last_error", t)

error_limit(d, t) ==
    DictSet(DictSet(d, "errors", conf.error_suppression_limit + 1),
            "last_error", t)

\* a count added without the time of the error
error_occurred_KeepsTime(d, t) ==
    DictSet(d, "errors",
            (IF "errors" \in DOMAIN d THEN d["errors"] ELSE 0) + 1)

\* a count that restarts when the window of the last error has expired
error_occurred_Prunes(d, t) ==
    DictSet(DictSet(d, "errors",
                    (IF error_limited(d, t).node = d /\ "errors" \in DOMAIN d
                     THEN d["errors"] ELSE 0) + 1),
            "last_error", t)

error_occurred(d, t) ==
    DictSet(DictSet(d, "errors",
                    (IF "errors" \in DOMAIN d THEN d["errors"] ELSE 0) + 1),
            "last_error", t)

\* exception_occurred as an alias of error_occurred
exception_occurred_Alias(d, t) == error_occurred(d, t)

exception_occurred(d, t) == d

(***************************************************************************)
(* Calls of the health operations made by the consumer of the iterator     *)
(* and by other requests.                                                  *)
(***************************************************************************)
Called(op, n, limited) ==
    [op |-> op, node |-> n, before |-> node[n], time |-> now,
     limited |-> limited]

Tick ==
    /\ now < MaxTime
    /\ now' = now + 1
    /\ UNCHANGED <<conf, ring, node, node_timings, last_call, error_calls,
                   itvars, rqvars>>

ErrorLimitedCall(n) ==
    /\ n \in RingNodes
    /\ LET r == error_limited(node[n], now)
       IN /\ node' = [node EXCEPT ![n] = r.node]
          /\ last_call' = Called("error_limited", n, r.limited)
    /\ UNCHANGED <<conf, ring, now, node_timings, error_calls,
                   itvars, rqvars>>

ErrorLimitCall(n) ==
    /\ n \in RingNodes
    /\ error_calls < MaxErrorCalls
    /\ node' = [node EXCEPT ![n] = error_limit(node[n], now)]
    /\ last_call' = Called("error_limit", n, FALSE)
    /\ error_calls' = error_calls + 1
    /\ UNCHANGED <<conf, ring, now, node_timings, itvars, rqvars>>

ErrorOccurredCall(n) ==
    /\ n \in RingNodes
    /\ error_calls < MaxErrorCalls
    /\ ("errors" \in DOMAIN node[n]) => node[n]["errors"] < MaxErrors
    /\ node' = [node EXCEPT ![n] = error_occurred(node[n], now)]
    /\ last_call' = Called("error_occurred", n, FALSE)
    /\ error_calls' = error_calls + 1
    /\ UNCHANGED <<conf, ring, now, node_timings, itvars, rqvars>>

ExceptionOccurredCall(n) ==
    /\ n \in RingNodes
    /\ node' = [node EXCEPT ![n] = exception_occurred(node[n], now)]
    /\ last_call' = Called("exception_occurred", n, FALSE)
    /\ UNCHANGED <<conf, ring, now, node_timings, error_calls,
                   itvars, rqvars>>

(***************************************************************************)
(* The node sorter.                                                        *)
(***************************************************************************)
\* key_func's value for a node without an unexpired timing: -1.0 seconds,
\* in the milliseconds set_node_timing rounds to
MissingTimingKey == -1000

PermSeqs(s) ==
    {[i \in 1..Len(s) |-> s[f[i]]] : f \in Permutations(1..Len(s))}

\* list.sort(key=...): a stable sort by the keys k[n]
RECURSIVE StableSort(_, _)
StableSort(s, k) ==
    IF Len(s) <= 1
    THEN s
    ELSE LET front == StableSort(SubSeq(s, 1, Len(s) - 1), k)
             x == s[Len(s)]
             pos == Cardinality({i \in 1..Len(front) : k[front[i]] <= k[x]})
         IN SubSeq(front, 1, pos) \o <<x>> \o SubSeq(front, pos + 1, Len(front))

key_func(n) ==
    IF NodeIp(n) \in DOMAIN node_timings
       /\ node_timings[NodeIp(n)].expires > now
    THEN node_timings[NodeIp(n)].timing
    ELSE MissingTimingKey

read_affinity_sort_key(n) == conf.read_affinity[n]

\* sort_nodes on the list as random.shuffle left it
sort_nodes(shuffled) ==
    IF conf.sorting_method = "timing"
    THEN StableSort(shuffled, [n \in Nodes |-> key_func(n)])
    ELSE IF conf.sorting_method = "affinity"
         THEN StableSort(shuffled, [n \in Nodes |-> read_affinity_sort_key(n)])
         ELSE shuffled

\* set_node_timing on the table tbl at time t; timing is the measured time
\* in milliseconds (round(timing, 3) of the seconds)
set_node_timing(tbl, n, timing, t) ==
    IF conf.sorting_method # "timing"
    THEN tbl
    ELSE DictSet(tbl, NodeIp(n),
                 [timing |-> timing, expires |-> t + conf.timing_expiry])

(***************************************************************************)
(* request_node_count: the value __init__ compiles from the option's       *)
(* tokens, either <<N>> or <<N, "*", "replicas">>.                         *)
(***************************************************************************)
IntOf(tok) ==
    CASE tok = "0" -> 0 [] tok = "1" -> 1 [] tok = "2" -> 2
      [] tok = "3" -> 3 [] tok = "4" -> 4 [] tok = "5" -> 5 [] tok = "6" -> 6

\* a compiled option that forgets the replica count
request_node_count_Constant(r) == IntOf(conf.request_node_count[1])

request_node_count(r) ==
    LET value == conf.request_node_count
    IN IF Len(value) = 1
       THEN IntOf(value[1])
       ELSE IntOf(value[1]) * r.replica_count

(***************************************************************************)
(* iter_nodes.  The generator runs from one suspension to the next in one  *)
(* step: the first next() runs lines 422-433 and the loops up to the first *)
(* yield; each later next() resumes after the yield it is suspended at.    *)
(* node_iter is an iterator: what islice takes from it is gone from it.    *)
(***************************************************************************)
\* a primary loop that leaves at the first error limited primary
ScanPrimary_Break(prim, i, tbl) ==
    IF i > Len(prim)
    THEN [found |-> FALSE, idx |-> i, tbl |-> tbl, skipped |-> {}]
    ELSE LET r == error_limited(tbl[prim[i]], now)
             tbl2 == [tbl EXCEPT ![prim[i]] = r.node]
         IN IF ~r.limited
            THEN [found |-> TRUE, idx |-> i, tbl |-> tbl2, skipped |-> {}]
            ELSE [found |-> FALSE, idx |-> Len(prim) + 1, tbl |-> tbl2,
                  skipped |-> {prim[i]}]

\* the primary loop's search, from position i, for a node to yield
\* (line 436); tbl is the node dictionaries as the calls leave them
RECURSIVE ScanPrimary(_, _, _)
ScanPrimary(prim, i, tbl) ==
    IF i > Len(prim)
    THEN [found |-> FALSE, idx |-> i, tbl |-> tbl, skipped |-> {}]
    ELSE LET r == error_limited(tbl[prim[i]], now)
             tbl2 == [tbl EXCEPT ![prim[i]] = r.node]
         IN IF ~r.limited
            THEN [found |-> TRUE, idx |-> i, tbl |-> tbl2, skipped |-> {}]
            ELSE LET more == ScanPrimary(prim, i + 1, tbl2)
                 IN [more EXCEPT !.skipped = @ \cup {prim[i]}]

\* a handoff loop that yields without the check of line 444
ScanHandoff_Unchecked(rest, tbl) ==
    IF rest = <<>>
    THEN [found |-> FALSE, node |-> NoNode, rest |-> rest, tbl |-> tbl,
          skipped |-> {}]
    ELSE [found |-> TRUE, node |-> Head(rest), rest |-> Tail(rest),
          tbl |-> tbl, skipped |-> {}]

\* a handoff loop that yields a node and leaves it in the source
ScanHandoff_Peek(rest, tbl) ==
    IF rest = <<>>
    THEN [found |-> FALSE, node |-> NoNode, rest |-> rest, tbl |-> tbl,
          skipped |-> {}]
    ELSE LET r == error_limited(tbl[Head(rest)], now)
             tbl2 == [tbl EXCEPT ![Head(rest)] = r.node]
         IN IF ~r.limited
            THEN [found |-> TRUE, node |-> Head(rest), rest |-> rest,
                  tbl |-> tbl2, skipped |-> {}]
            ELSE [found |-> FALSE, node |-> NoNode, rest |-> Tail(rest),
                  tbl |-> tbl2, skipped |-> {Head(rest)}]

\* the handoff loop's search for a node to yield (line 444)
RECURSIVE ScanHandoff(_, _)
ScanHandoff(rest, tbl) ==
    IF rest = <<>>
    THEN [found |-> FALSE, node |-> NoNode, rest |-> rest, tbl |-> tbl,
          skipped |-> {}]
    ELSE LET r == error_limited(tbl[Head(rest)], now)
             tbl2 == [tbl EXCEPT ![Head(rest)] = r.node]
         IN IF ~r.limited
            THEN [found |-> TRUE, node |-> Head(rest), rest |-> Tail(rest),
                  tbl |-> tbl2, skipped |-> {}]
            ELSE LET more == ScanHandoff(Tail(rest), tbl2)
                 IN [more EXCEPT !.skipped = @ \cup {Head(rest)}]

\* counters that take handoff_all_count for every handoff from the
\* len(primary_nodes)-th on
HandoffMetrics_FromAllOn(m, h, prim) ==
    IF conf.log_handoffs
    THEN [handoff_count |-> m.handoff_count + 1,
          handoff_all_count |-> m.handoff_all_count
                                + (IF h >= Len(prim) THEN 1 ELSE 0)]
    ELSE m

\* lines 445-451: the counters as a handoff about to be yielded leaves them
HandoffMetrics(m, h, prim) ==
    IF conf.log_handoffs
    THEN [handoff_count |-> m.handoff_count + 1,
          handoff_all_count |-> m.handoff_all_count
                                + (IF h = Len(prim) THEN 1 ELSE 0)]
    ELSE m

\* the handoff loop (lines 443-452) up to its next yield or its end
HandoffLoop(prim, rest, tbl, h, m, nl) ==
    LET sh == ScanHandoff(rest, tbl)
    IN IF sh.found
       THEN [pc |-> "handoff", idx |-> Len(prim) + 1, node |-> sh.node,
             rest |-> sh.rest, tbl |-> sh.tbl, handoffs |-> h + 1,
             metrics |-> HandoffMetrics(m, h + 1, prim), nodes_left |-> nl,
             out |-> <<sh.node>>, skipped |-> sh.skipped]
       ELSE [pc |-> "done", idx |-> Len(prim) + 1, node |-> NoNode,
             rest |-> sh.rest, tbl |-> sh.tbl, handoffs |-> h,
             metrics |-> m, nodes_left |-> nl, out |-> <<>>,
             skipped |-> sh.skipped]

\* the primary loop from position i (lines 435-437), falling through to
\* `handoffs = 0` and the handoff loop when the primaries are used up
PrimaryLoop(prim, i, rest, tbl, m, nl) ==
    LET sp == ScanPrimary(prim, i, tbl)
    IN IF sp.found
       THEN [pc |-> "primary", idx |-> sp.idx, node |-> prim[sp.idx],
             rest |-> rest, tbl |-> sp.tbl, handoffs |-> 0, metrics |-> m,
             nodes_left |-> nl, out |-> <<prim[sp.idx]>>,
             skipped |-> sp.skipped]
       ELSE LET f == HandoffLoop(prim, rest, sp.tbl, 0, m, nl)
            IN [f EXCEPT !.skipped = @ \cup sp.skipped]

\* the generator returned (lines 441, 456)
Returned(rest, tbl, h, m, nl) ==
    [pc |-> "done", idx |-> it_idx, node |-> NoNode, rest |-> rest,
     tbl |-> tbl, handoffs |-> h, metrics |-> m, nodes_left |-> nl,
     out |-> <<>>, skipped |-> {}]

\* the frame and the node dictionaries after a run of the generator
Suspend(f) ==
    /\ it_pc' = f.pc
    /\ it_idx' = f.idx
    /\ it_node' = f.node
    /\ handoff_nodes' = f.rest
    /\ node' = f.tbl
    /\ handoffs' = f.handoffs
    /\ metrics' = f.metrics
    /\ nodes_left' = f.nodes_left
    /\ yielded' = yielded \o f.out
    /\ skipped' = skipped \cup f.skipped

\* itertools.chain(part_nodes, ring.get_more_nodes(partition))
RingChain == ring.part_nodes \o ring.more_nodes

\* the values of node_iter: None (the ring's chain), or the caller's
\* iterator, here one that filters the chain's first node out
NodeIterChoices == {RingChain, Tail(RingChain)}

Min(a, b) == IF a <= b THEN a ELSE b

\* list(itertools.islice(node_iter, num_primary_nodes))
TakePrimaries(node_iter, num_primary_nodes) ==
    SubSeq(node_iter, 1, Min(num_primary_nodes, Len(node_iter)))

\* the first next(): lines 422-433, then the loops
IterStart ==
    /\ it_pc = "idle"
    /\ \E node_iter \in NodeIterChoices :
         LET num_primary_nodes == Len(ring.part_nodes)
             taken == TakePrimaries(node_iter, num_primary_nodes)
             rest == SubSeq(node_iter, Len(taken) + 1, Len(node_iter))
         IN \E shuffled \in PermSeqs(taken) :
              /\ it_source' = node_iter
              /\ primary_nodes' = sort_nodes(shuffled)
              /\ Suspend(PrimaryLoop(sort_nodes(shuffled), 1, rest, node,
                                     metrics, request_node_count(ring)))
    /\ UNCHANGED <<conf, ring, now, node_timings, last_call, error_calls,
                   replaced, rqvars>>

\* a return test that lets one node more through
BudgetSpent_Late(nl) == nl < 0

\* `if nodes_left <= 0: return` (lines 440, 455)
BudgetSpent(nl) == nl <= 0

\* a decrement without the second check
Recheck_Always(n, tbl, nl) ==
    LET r == error_limited(tbl[n], now)
        tbl2 == [tbl EXCEPT ![n] = r.node]
    IN [tbl |-> tbl2, limited |-> r.limited, nodes_left |-> nl - 1,
        return |-> BudgetSpent(nl - 1)]

\* what follows a yield of node n (lines 438-441, 453-456): the second
\* error_limited check, the decrement, and whether the generator returns
Recheck(n, tbl, nl) ==
    LET r == error_limited(tbl[n], now)
        tbl2 == [tbl EXCEPT ![n] = r.node]
    IN IF ~r.limited
       THEN [tbl |-> tbl2, limited |-> FALSE, nodes_left |-> nl - 1,
             return |-> BudgetSpent(nl - 1)]
       ELSE [tbl |-> tbl2, limited |-> TRUE, nodes_left |-> nl,
             return |-> FALSE]

\* next() on the frame suspended at line 437
ResumePrimary ==
    /\ it_pc = "primary"
    /\ LET c == Recheck(it_node, node, nodes_left)
       IN /\ replaced' = replaced + (IF c.limited THEN 1 ELSE 0)
          /\ IF c.return
             THEN Suspend(Returned(handoff_nodes, c.tbl, handoffs, metrics,
                                   c.nodes_left))
             ELSE Suspend(PrimaryLoop(primary_nodes, it_idx + 1,
                                      handoff_nodes, c.tbl, metrics,
                                      c.nodes_left))
    /\ UNCHANGED <<conf, ring, now, node_timings, last_call, error_calls,
                   it_source, primary_nodes, rqvars>>

\* next() on the frame suspended at line 452
ResumeHandoff ==
    /\ it_pc = "handoff"
    /\ LET c == Recheck(it_node, node, nodes_left)
       IN /\ replaced' = replaced + (IF c.limited THEN 1 ELSE 0)
          /\ IF c.return
             THEN Suspend(Returned(handoff_nodes, c.tbl, handoffs, metrics,
                                   c.nodes_left))
             ELSE Suspend(HandoffLoop(primary_nodes, handoff_nodes, c.tbl,
                                      handoffs, metrics, c.nodes_left))
    /\ UNCHANGED <<conf, ring, now, node_timings, last_call, error_calls,
                   it_source, primary_nodes, rqvars>>

(***************************************************************************)
(* The request pipeline: __call__, update_request and handle_request.      *)
(* A key of the WSGI environment is the list of the words its name has     *)
(* between underscores ('HTTP_HOST' is <<"HTTP", "HOST">>), a header name  *)
(* the list of its words between hyphens, and a path the list of its       *)
(* segments between slashes ('/v1/a' is <<"", "v1", "a">>, '' is <<"">>),  *)
(* so that startswith, split and the case of a name are computed and not   *)
(* assumed.                                                                *)
(***************************************************************************)
K_REQUEST_METHOD == <<"REQUEST", "METHOD">>

K_SCRIPT_NAME == <<"SCRIPT", "NAME">>

K_PATH_INFO == <<"PATH", "INFO">>

K_CONTENT_LENGTH == <<"CONTENT", "LENGTH">>

K_TRANS_ID == <<"swift.trans", "id">>

K_AUTHORIZE == <<"swift.authorize">>

K_ORIG_REQ_METHOD == <<"swift.orig", "req", "method">>

\* str.upper() on the words the model's header names are made of
Upper(w) ==
    CASE w \in {"x", "X"} -> "X"
      [] w \in {"backend", "Backend", "BACKEND"} -> "BACKEND"
      [] w \in {"backends", "BACKENDS"} -> "BACKENDS"
      [] w \in {"fragment", "Fragment"} -> "FRAGMENT"
      [] w \in {"index", "Index"} -> "INDEX"
      [] w \in {"storage", "Storage"} -> "STORAGE"
      [] w \in {"auth", "Auth"} -> "AUTH"
      [] w \in {"token", "Token"} -> "TOKEN"
      [] w \in {"trans", "Trans"} -> "TRANS"
      [] w \in {"id", "Id"} -> "ID"
      [] w \in {"host", "Host"} -> "HOST"
      [] OTHER -> w

\* str.lower() on the same words
Lower(w) ==
    CASE w \in {"x", "X"} -> "x"
      [] w \in {"backend", "Backend", "BACKEND"} -> "backend"
      [] w \in {"backends", "BACKENDS"} -> "backends"
      [] w \in {"fragment", "Fragment"} -> "fragment"
      [] w \in {"index", "Index"} -> "index"
      [] w \in {"storage", "Storage"} -> "storage"
      [] w \in {"auth", "Auth"} -> "auth"
      [] w \in {"token", "Token"} -> "token"
      [] w \in {"trans", "Trans"} -> "trans"
      [] w \in {"id", "Id"} -> "id"
      [] w \in {"host", "Host"} -> "host"
      [] OTHER -> w

\* the environment key of a header: 'HTTP_' + name.upper() with '_' for '-',
\* as the WSGI server writes the client's headers into env and as
\* req.headers[name] finds them
HeaderKey(name) == <<"HTTP">> \o [i \in 1..Len(name) |-> Upper(name[i])]

\* a test for equality with one reserved name
startswith_HTTP_X_BACKEND_Exact(k) ==
    k = <<"HTTP", "X", "BACKEND", "FRAGMENT", "INDEX">>

\* k.startswith('HTTP_X_BACKEND_') (line 219)
startswith_HTTP_X_BACKEND_(k) ==
    Len(k) >= 4 /\ SubSeq(k, 1, 3) = <<"HTTP", "X", "BACKEND">>

\* lines 219-220 of __call__: the environment without its x-backend-* keys
strip_backend_headers(e) ==
    [k \in {x \in DOMAIN e : ~startswith_HTTP_X_BACKEND_(x)} |-> e[k]]

\* update_request on the request's environment
update_request(e) ==
    IF HeaderKey(<<"x", "storage", "token">>) \in DOMAIN e
       /\ HeaderKey(<<"x", "auth", "token">>) \notin DOMAIN e
    THEN DictSet(e, HeaderKey(<<"x", "auth", "token">>),
                 e[HeaderKey(<<"x", "storage", "token">>)])
    ELSE e

(***************************************************************************)
(* The URL classifier.                                                     *)
(***************************************************************************)
\* an optional string: None is <<>>, a string is its list of segments
None == <<>>

\* the truth value of an optional string: None and '' are false
Truthy(x) == x # None /\ x # <<"">>

\* a + b on two strings, b empty or starting with a slash
StrCat(a, b) ==
    IF b = <<"">> THEN a
    ELSE IF a = <<"">> THEN b
    ELSE a \o Tail(b)

\* split_path(path, 1, 4, True): path.split('/', 4), a ValueError unless the
\* path starts with a slash and its first segment (the version) is not
\* empty; the fifth piece is the rest of the path with its slashes
split_path(path) ==
    IF path[1] # "" \/ Len(path) < 2 \/ path[2] = ""
    THEN [error |-> TRUE, version |-> None, account |-> None,
          container |-> None, obj |-> None]
    ELSE [error |-> FALSE,
          version |-> <<path[2]>>,
          account |-> IF Len(path) >= 3 THEN <<path[3]>> ELSE None,
          container |-> IF Len(path) >= 4 THEN <<path[4]>> ELSE None,
          obj |-> IF Len(path) >= 5 THEN SubSeq(path, 5, Len(path))
                  ELSE None]

NoController == "None"

\* a classifier that takes every path under /info for the info document
get_controller_InfoPrefix(path) ==
    IF Len(path) >= 2 /\ SubSeq(path, 1, 2) = <<"", "info">>
    THEN [error |-> FALSE, controller |-> "InfoController",
          d |-> [version |-> None, account_name |-> None,
                 container_name |-> None, object_name |-> None]]
    ELSE LET s == split_path(path)
             d == [version |-> s.version, account_name |-> s.account,
                   container_name |-> s.container, object_name |-> s.obj]
         IN IF s.error
            THEN [error |-> TRUE, controller |-> NoController, d |-> d]
            ELSE IF Truthy(s.obj) /\ Truthy(s.container) /\ Truthy(s.account)
            THEN [error |-> FALSE, controller |-> "ObjectController", d |-> d]
            ELSE IF Truthy(s.container) /\ Truthy(s.account)
            THEN [error |-> FALSE, controller |-> "ContainerController",
                  d |-> d]
            ELSE IF Truthy(s.account) /\ ~Truthy(s.container)
                    /\ ~Truthy(s.obj)
            THEN [error |-> FALSE, controller |-> "AccountController",
                  d |-> d]
            ELSE [error |-> FALSE, controller |-> NoController, d |-> d]

\* a classifier whose account case forgets to look at the object
get_controller_AccountFirst(path) ==
    IF path = <<"", "info">>
    THEN [error |-> FALSE, controller |-> "InfoController",
          d |-> [version |-> None, account_name |-> None,
                 container_name |-> None, object_name |-> None]]
    ELSE LET s == split_path(path)
             d == [version |-> s.version, account_name |-> s.account,
                   container_name |-> s.container, object_name |-> s.obj]
         IN IF s.error
            THEN [error |-> TRUE, controller |-> NoController, d |-> d]
            ELSE IF Truthy(s.obj) /\ Truthy(s.container) /\ Truthy(s.account)
            THEN [error |-> FALSE, controller |-> "ObjectController", d |-> d]
            ELSE IF Truthy(s.container) /\ Truthy(s.account)
            THEN [error |-> FALSE, controller |-> "ContainerController",
                  d |-> d]
            ELSE IF Truthy(s.account) /\ ~Truthy(s.container)
            THEN [error |-> FALSE, controller |-> "AccountController",
                  d |-> d]
            ELSE [error |-> FALSE, controller |-> NoController, d |-> d]

\* get_controller: error is the ValueError split_path raises, d the path
\* dictionary (for /info the options of the info document stand behind
\* version = None)
get_controller(path) ==
    IF path = <<"", "info">>
    THEN [error |-> FALSE, controller |-> "InfoController",
          d |-> [version |-> None, account_name |-> None,
                 container_name |-> None, object_name |-> None]]
    ELSE LET s == split_path(path)
             d == [version |-> s.version, account_name |-> s.account,
                   container_name |-> s.container, object_name |-> s.obj]
         IN IF s.error
            THEN [error |-> TRUE, controller |-> NoController, d |-> d]
            ELSE IF Truthy(s.obj) /\ Truthy(s.container) /\ Truthy(s.account)
            THEN [error |-> FALSE, controller |-> "ObjectController", d |-> d]
            ELSE IF Truthy(s.container) /\ Truthy(s.account)
            THEN [error |-> FALSE, controller |-> "ContainerController",
                  d |-> d]
            ELSE IF Truthy(s.account) /\ ~Truthy(s.container)
                    /\ ~Truthy(s.obj)
            THEN [error |-> FALSE, controller |-> "AccountController",
                  d |-> d]
            ELSE [error |-> FALSE, controller |-> NoController, d |-> d]

(***************************************************************************)
(* The controllers.  A controller class is known to the pipeline by the    *)
(* attributes of its methods: a method is a handler when it carries        *)
(* publicly_accessible, and may carry delay_denial.                        *)
(***************************************************************************)
\* the methods of a controller class and their attributes: GET is public
\* and delays denials, PUT is public with delay_denial false, POST is
\* public without the flag, HEAD is defined but not public
ControllerMethods ==
    [m \in {"GET", "PUT", "POST", "HEAD"} |->
        CASE m = "GET" -> [publicly_accessible |-> TRUE, delay_denial |-> TRUE]
          [] m = "PUT" -> [publicly_accessible |-> TRUE, delay_denial |-> FALSE]
          [] m = "POST" -> [publicly_accessible |-> TRUE]
          [] m = "HEAD" -> EmptyDict]

\* controller.allowed_methods
allowed_methods ==
    {m \in DOMAIN ControllerMethods :
        "publicly_accessible" \in DOMAIN ControllerMethods[m]}

\* controller(self, **path_parts), and the trans_id line 286 gives it
Controller(class, path_parts, trans_id) ==
    [class |-> class, path_parts |-> path_parts, trans_id |-> trans_id]

NoControllerInstance ==
    Controller(NoController,
               [version |-> None, account_name |-> None,
                container_name |-> None, object_name |-> None], "")

(***************************************************************************)
(* handle_request.  It runs from its entry to the first call it makes of   *)
(* the authorization hook or of the handler, or to its return; the hook    *)
(* and the handler are code of the caller, and the request waits in them.  *)
(***************************************************************************)
Response(status, body) == [status |-> status, body |-> body, allow |-> {}]

NoResponse == Response(0, "")

\* HTTPMethodNotAllowed(request=req, headers={'Allow': ...})
HTTPMethodNotAllowed(allowed) ==
    [status |-> 405, body |-> "", allow |-> allowed]

\* the path segments check_utf8 refuses: one holding a NUL byte, one that
\* is not UTF-8
BadSegments == {"o\\x00", "o\\xff"}

check_utf8(path) == \A i \in 1..Len(path) : path[i] \notin BadSegments

\* req.path: SCRIPT_NAME + PATH_INFO
ReqPath(e) == StrCat(e[K_SCRIPT_NAME], e[K_PATH_INFO])

\* req.path_info_pop(): the first segment of PATH_INFO moves to SCRIPT_NAME
path_info_pop(e) ==
    LET p == e[K_PATH_INFO]
    IN IF Len(p) < 2
       THEN e
       ELSE DictSet(DictSet(e, K_SCRIPT_NAME,
                            StrCat(e[K_SCRIPT_NAME], <<"", p[2]>>)),
                    K_PATH_INFO,
                    IF Len(p) > 2 THEN <<"">> \o SubSeq(p, 3, Len(p))
                    ELSE <<"">>)

\* generate_trans_id(self.trans_id_suffix)
generate_trans_id == "tx-generated"

\* handle_request returned resp
Returns(e, c, resp, ev) ==
    [env |-> e, pc |-> "responded", controller |-> c, handler |-> EmptyDict,
     response |-> resp, events |-> ev]

\* lines 315-316: the method is saved and the handler called
Dispatch(e, c, h, ev) ==
    [env |-> DictSet(e, K_ORIG_REQ_METHOD, e[K_REQUEST_METHOD]),
     pc |-> "handler", controller |-> c, handler |-> h,
     response |-> NoResponse, events |-> ev \o <<"handler">>]

\* a lookup that takes any defined method for a handler
LookupHandler_AnyMethod(method) ==
    IF method \in DOMAIN ControllerMethods
    THEN [found |-> TRUE, handler |-> ControllerMethods[method]]
    ELSE [found |-> FALSE, handler |-> EmptyDict]

\* lines 288-291: getattr(controller, req.method) and its
\* publicly_accessible attribute, or AttributeError
LookupHandler(method) ==
    IF method \in DOMAIN ControllerMethods
       /\ "publicly_accessible" \in DOMAIN ControllerMethods[method]
    THEN [found |-> TRUE, handler |-> ControllerMethods[method]]
    ELSE [found |-> FALSE, handler |-> EmptyDict]

\* a transaction id written on every pass
InstallTransId_Always(e) ==
    LET e1 == DictSet(e, K_TRANS_ID, generate_trans_id)
    IN [env |-> DictSet(e1, HeaderKey(<<"x", "trans", "id">>), e1[K_TRANS_ID]),
        events |-> <<"generate_trans_id">>]

\* lines 280-285: the transaction id and its header
InstallTransId(e) ==
    LET generated == K_TRANS_ID \notin DOMAIN e
        e1 == IF generated THEN DictSet(e, K_TRANS_ID, generate_trans_id)
              ELSE e
    IN [env |-> DictSet(e1, HeaderKey(<<"x", "trans", "id">>), e1[K_TRANS_ID]),
        events |-> IF generated THEN <<"generate_trans_id">> ELSE <<>>]

\* lines 277-316, from the instantiation of the controller
Instantiated(e, gc) ==
    LET t == InstallTransId(e)
        c == Controller(gc.controller, gc.d, t.env[K_TRANS_ID])
        ev1 == <<"controller">> \o t.events
        l == LookupHandler(t.env[K_REQUEST_METHOD])
    IN IF ~l.found
       THEN Returns(t.env, c, HTTPMethodNotAllowed(allowed_methods), ev1)
       ELSE LET popped == Truthy(gc.d.version)
                e3 == IF popped THEN path_info_pop(t.env) ELSE t.env
                ev2 == ev1 \o (IF popped THEN <<"path_info_pop">> ELSE <<>>)
            IN IF K_AUTHORIZE \in DOMAIN e3
               THEN [env |-> e3, pc |-> "authorize", controller |-> c,
                     handler |-> l.handler, response |-> NoResponse,
                     events |-> ev2 \o <<"swift.authorize">>]
               ELSE Dispatch(e3, c, l.handler, ev2)

\* a pipeline that looks at the Host header before the path
handle_request_HostFirst(e) ==
    IF K_CONTENT_LENGTH \in DOMAIN e /\ e[K_CONTENT_LENGTH] < 0
    THEN Returns(e, NoControllerInstance,
                 Response(400, "Invalid Content-Length"), <<>>)
    ELSE IF e[HeaderKey(<<"host">>)][1] \in conf.deny_host_headers
    THEN Returns(e, NoControllerInstance,
                 Response(403, "Invalid host header"), <<>>)
    ELSE IF ~check_utf8(e[K_PATH_INFO])
    THEN Returns(e, NoControllerInstance,
                 Response(412, "Invalid UTF8 or contains NULL"), <<>>)
    ELSE LET gc == get_controller(ReqPath(e))
         IN IF gc.error
            THEN Returns(e, NoControllerInstance, Response(404, ""), <<>>)
            ELSE IF gc.controller = NoController
            THEN Returns(e, NoControllerInstance, Response(412, "Bad URL"),
                         <<>>)
            ELSE Instantiated(e, gc)

\* handle_request on the request's environment (lines 245-316)
handle_request(e) ==
    IF K_CONTENT_LENGTH \in DOMAIN e /\ e[K_CONTENT_LENGTH] # 0
       /\ e[K_CONTENT_LENGTH] < 0
    THEN Returns(e, NoControllerInstance,
                 Response(400, "Invalid Content-Length"), <<>>)
    ELSE IF ~check_utf8(e[K_PATH_INFO])
    THEN Returns(e, NoControllerInstance,
                 Response(412, "Invalid UTF8 or contains NULL"), <<>>)
    ELSE LET gc == get_controller(ReqPath(e))
         IN IF gc.error
            THEN Returns(e, NoControllerInstance, Response(404, ""), <<>>)
            ELSE IF gc.controller = NoController
            THEN Returns(e, NoControllerInstance, Response(412, "Bad URL"),
                         <<>>)
            ELSE IF conf.deny_host_headers # {}
                    /\ e[HeaderKey(<<"host">>)][1] \in conf.deny_host_headers
            THEN Returns(e, NoControllerInstance,
                         Response(403, "Invalid host header"), <<>>)
            ELSE Instantiated(e, gc)

\* a hook that stays installed after it authorized the request
AfterAuthorize_KeepsHook(e, c, h, resp) ==
    IF resp = NoResponse
    THEN Dispatch(e, c, h, <<>>)
    ELSE IF ~("delay_denial" \in DOMAIN h /\ h["delay_denial"])
         THEN Returns(e, c, resp, <<>>)
         ELSE Dispatch(e, c, h, <<>>)

\* a denial that is never returned before the handler ran
AfterAuthorize_AlwaysDelays(e, c, h, resp) ==
    IF resp = NoResponse
    THEN Dispatch(DictDel(e, K_AUTHORIZE), c, h, <<>>)
    ELSE Dispatch(e, c, h, <<>>)

\* lines 304-316: what handle_request does with the hook's answer resp
\* (NoResponse is None)
AfterAuthorize(e, c, h, resp) ==
    IF resp = NoResponse
    THEN Dispatch(DictDel(e, K_AUTHORIZE), c, h, <<>>)
    ELSE IF ~("delay_denial" \in DOMAIN h /\ h["delay_denial"])
         THEN Returns(e, c, resp, <<>>)
         ELSE Dispatch(e, c, h, <<>>)

\* HTTPServerError(request=req) (line 321)
HTTPServerError == Response(500, "Internal server error")

\* the request's frame and environment after a run of handle_request
Proceed(r) ==
    /\ env' = r.env
    /\ rq_pc' = r.pc
    /\ controller' = r.controller
    /\ handler' = r.handler
    /\ response' = r.response
    /\ events' = events \o r.events
    /\ UNCHANGED <<entry_env, passes>>
    /\ UNCHANGED <<conf, ring, now, node, node_timings, last_call,
                   error_calls, itvars>>

\* __call__ up to its call of handle_request (lines 213-221)
Call ==
    /\ rq_pc = "wsgi"
    /\ env' = update_request(strip_backend_headers(env))
    /\ rq_pc' = "handle_request"
    /\ events' = events \o <<"__call__">>
    /\ UNCHANGED <<entry_env, controller, handler, response, passes>>
    /\ UNCHANGED <<conf, ring, now, node, node_timings, last_call,
                   error_calls, itvars>>

\* handle_request up to the return, the hook or the handler
HandleRequest ==
    /\ rq_pc = "handle_request"
    /\ Proceed(handle_request(env))

\* the hook returns None or a denial, or raises (lines 303-321); events
\* takes the hook's answer before what handle_request does with it
AuthorizeReturns ==
    /\ rq_pc = "authorize"
    /\ \E outcome \in {"authorized", "denied", "raises"} :
         LET r == CASE outcome = "authorized"
                        -> AfterAuthorize(env, controller, handler, NoResponse)
                    [] outcome = "denied"
                        -> AfterAuthorize(env, controller, handler,
                                          Response(401, "Unauthorized"))
                    [] outcome = "raises"
                        -> Returns(env, controller, HTTPServerError, <<>>)
         IN Proceed([r EXCEPT !.events = <<outcome>> \o @])

\* the handler returns its response, or raises (lines 316-321)
HandlerReturns ==
    /\ rq_pc = "handler"
    /\ \E outcome \in {"returns", "raises"} :
         Proceed(Returns(env, controller,
                         IF outcome = "returns" THEN Response(200, "OK")
                         ELSE HTTPServerError, <<>>))

\* the caller hands the environment, as the last pass left it, to __call__
\* again
Reenter ==
    /\ rq_pc = "responded"
    /\ passes < MaxPasses
    /\ passes' = passes + 1
    /\ entry_env' = env
    /\ rq_pc' = "wsgi"
    /\ controller' = NoControllerInstance
    /\ handler' = EmptyDict
    /\ response' = NoResponse
    /\ UNCHANGED <<env, events>>
    /\ UNCHANGED <<conf, ring, now, node, node_timings, last_call,
                   error_calls, itvars>>

(***************************************************************************)
(* Initial states: the application after __init__, no node annotated, the  *)
(* generator created and not yet started.                                  *)
(***************************************************************************)
\* read_affinity_sort_key for a read_affinity rule that prefers the nodes
\* P2 and H1 (lower is better)
AffinityKey == [n \in Nodes |-> IF n \in {"P2", "H1"} THEN 0 ELSE 1]

Confs(limits, intervals, counts, logs, sortings) ==
    [error_suppression_limit : limits,
     error_suppression_interval : intervals,
     request_node_count : counts,
     log_handoffs : logs,
     sorting_method : sortings,
     timing_expiry : {2},
     read_affinity : {AffinityKey}]

\* node_timings as requests served before time 0 left it: P1 measured at
\* 2 ms and P2 at 1 ms, P1's entry expiring first (the table stays empty
\* unless sorting_method is timing)
InitialTimings ==
    set_node_timing(set_node_timing(EmptyDict, "P1", 2, -1), "P2", 1, 0)

Ring(prim, more) ==
    [part_nodes |-> prim, more_nodes |-> more, replica_count |-> Len(prim)]

IdleFrame ==
    /\ it_pc = "idle"
    /\ it_source = <<>>
    /\ primary_nodes = <<>>
    /\ handoff_nodes = <<>>
    /\ it_idx = 0
    /\ it_node = NoNode
    /\ nodes_left = 0
    /\ handoffs = 0
    /\ metrics = [handoff_count |-> 0, handoff_all_count |-> 0]
    /\ yielded = <<>>
    /\ skipped = {}
    /\ replaced = 0

NoCalls ==
    /\ last_call = [op |-> "none", node |-> NoNode, before |-> EmptyDict,
                    time |-> 0, limited |-> FALSE]
    /\ error_calls = 0

\* no request is in the pipeline
NoRequest ==
    /\ env = EmptyDict
    /\ entry_env = EmptyDict
    /\ rq_pc = "none"
    /\ controller = NoControllerInstance
    /\ handler = EmptyDict
    /\ response = NoResponse
    /\ events = <<>>
    /\ passes = 0

(***************************************************************************)
(* Spec: one iter_nodes generator over a ring of two primaries and two     *)
(* handoffs, stepped by its consumer while the consumer and other requests *)
(* record errors on any node and the clock advances.                       *)
(***************************************************************************)
Init ==
    /\ conf \in Confs({1}, {1}, {<<"0">>, <<"1", "*", "replicas">>, <<"3">>},
                       {TRUE}, {"shuffle", "timing"})
    /\ ring = Ring(<<"P1", "P2">>, <<"H1", "H2">>)
    /\ now = 0
    /\ node = [n \in Nodes |-> EmptyDict]
    /\ node_timings = InitialTimings
    /\ NoCalls
    /\ IdleFrame
    /\ NoRequest

Next ==
    \/ Tick
    \/ \E n \in Nodes : ErrorLimitCall(n)
    \/ \E n \in Nodes : ErrorOccurredCall(n)
    \/ IterStart
    \/ ResumePrimary
    \/ ResumeHandoff

Spec == Init /\ [][Next]_vars

\* Spec, under the shuffle sorting, with a consumer that always comes back
\* for the next node
InitLive == Init /\ conf.sorting_method = "shuffle"

SpecLive ==
    /\ InitLive
    /\ [][Next]_vars
    /\ WF_vars(IterStart)
    /\ WF_vars(ResumePrimary)
    /\ WF_vars(ResumeHandoff)

(***************************************************************************)
(* SpecScenario: the end-to-end scenarios of three primaries P1, P2, P3    *)
(* and handoffs H1, H2, ... under the default options (limit 10, interval  *)
(* 60, request_node_count '2 * replicas'), P2 either healthy or holding    *)
(* errors = 11 and last_error = now, and no node failing afterwards.       *)
(***************************************************************************)
ScenarioHandoffs ==
    {<<"H1", "H2", "H3">>, <<"H1", "H2", "H3", "H4">>,
     <<"H1", "H2", "H3", "H4", "H5">>}

InitScenario ==
    /\ conf \in Confs({10}, {60}, {<<"2", "*", "replicas">>}, BOOLEAN,
                       {"shuffle", "timing", "affinity"})
    /\ \E more \in ScenarioHandoffs : ring = Ring(<<"P1", "P2", "P3">>, more)
    /\ now = 0
    /\ \E d \in {EmptyDict, [errors |-> 11, last_error |-> 0]} :
         node = [n \in Nodes |-> IF n = "P2" THEN d ELSE EmptyDict]
    /\ node_timings = InitialTimings
    /\ NoCalls
    /\ IdleFrame
    /\ NoRequest

NextScenario ==
    \/ Tick
    \/ IterStart
    \/ ResumePrimary
    \/ ResumeHandoff

SpecScenario == InitScenario /\ [][NextScenario]_vars

(***************************************************************************)
(* SpecHealth: the node-health operations alone, called in any order on    *)
(* one node, from every annotation the operations can have left on it.     *)
(***************************************************************************)
\* error_suppression_limit, the number of errors that triggers suppression:
\* none at all, one, two
HealthLimits == {0, 1, 2}

NodeDicts(t) ==
    {EmptyDict} \cup {[errors |-> e, last_error |-> l] :
                        e \in 1..MaxErrors, l \in 0..t}

InitHealth ==
    /\ conf \in Confs(HealthLimits, {0, 1}, {<<"2", "*", "replicas">>}, {TRUE},
                       {"shuffle"})
    /\ ring = Ring(<<"P1">>, <<>>)
    /\ now \in 0..MaxTime
    /\ \E d \in NodeDicts(now) :
         node = [n \in Nodes |-> IF n = "P1" THEN d ELSE EmptyDict]
    /\ node_timings = InitialTimings
    /\ NoCalls
    /\ IdleFrame
    /\ NoRequest

NextHealth ==
    \/ Tick
    \/ \E n \in Nodes : ErrorLimitedCall(n)
    \/ \E n \in Nodes : ErrorLimitCall(n)
    \/ \E n \in Nodes : ErrorOccurredCall(n)
    \/ \E n \in Nodes : ExceptionOccurredCall(n)

SpecHealth == InitHealth /\ [][NextHealth]_vars

(***************************************************************************)
(* SpecPipeline: one request environment taken through __call__ and        *)
(* handle_request, once or again, for every method, path, header set,      *)
(* Content-Length, Host and upstream middleware of the sets below.         *)
(***************************************************************************)
RequestMethods == {"GET", "PUT", "POST", "HEAD", "COPY"}

RequestPaths ==
    {<<"", "info">>, <<"", "info", "endpoints">>, <<"", "v1">>,
     <<"", "v1", "">>, <<"", "v1", "a">>, <<"", "v1", "a", "">>,
     <<"", "v1", "a", "c">>, <<"", "v1", "a", "c", "">>,
     <<"", "v1", "a", "c", "o">>, <<"", "v1", "a", "c", "o", "x">>,
     <<"", "v1", "", "c">>, <<"", "v1", "a", "", "o">>,
     <<"", "", "a">>, <<"", "">>, <<"", "v1", "a", "c", "o\\x00">>}

\* the header names of the client, beside Host
HeaderSets ==
    {{},
     {<<"x", "backend", "fragment", "index">>, <<"x", "storage", "token">>},
     {<<"X", "Backend", "Id">>, <<"X", "BACKEND", "">>, <<"x", "backend">>,
      <<"X", "BACKENDS", "Id">>, <<"X", "Trans", "Id">>},
     {<<"X", "Storage", "Token">>, <<"X", "Auth", "Token">>}}

\* Content-Length: absent (<<>>) or <<n>>
ContentLengths == {<<>>, <<0>>, <<-1>>}

\* Host, split at the colon
Hosts == {<<"proxy.example", "8080">>, <<"evil.example">>}

\* the environment the WSGI server and the middleware upstream hand to
\* __call__; upstream holds the swift.* keys the middleware installed
WsgiEnviron(method, path, headers, content_length, host, upstream) ==
    LET keys == {K_REQUEST_METHOD, K_SCRIPT_NAME, K_PATH_INFO,
                 HeaderKey(<<"Host">>)}
                \cup {HeaderKey(h) : h \in headers}
                \cup upstream
                \cup (IF content_length = <<>> THEN {}
                      ELSE {K_CONTENT_LENGTH})
    IN [k \in keys |->
          CASE k = K_REQUEST_METHOD -> method
            [] k = K_SCRIPT_NAME -> <<"">>
            [] k = K_PATH_INFO -> path
            [] k = HeaderKey(<<"Host">>) -> host
            [] k = K_CONTENT_LENGTH -> content_length[1]
            [] k = K_TRANS_ID -> "tx-upstream"
            [] k = K_AUTHORIZE -> "authorize"
            [] k = HeaderKey(<<"x", "storage", "token">>) -> "T"
            [] k = HeaderKey(<<"x", "auth", "token">>) -> "A"
            [] OTHER -> "client"]

RequestEnvs ==
    {WsgiEnviron(m, p, hs, cl, host, up) :
        m \in RequestMethods, p \in RequestPaths, hs \in HeaderSets,
        cl \in ContentLengths, host \in Hosts,
        up \in SUBSET {K_TRANS_ID, K_AUTHORIZE}}

\* the options of the pipeline beside those of Confs
PipelineConfs ==
    {c @@ [deny_host_headers |-> d, trans_id_suffix |-> ""] :
        c \in Confs({10}, {60}, {<<"2", "*", "replicas">>}, {TRUE},
                    {"shuffle"}),
        d \in {{}, {"evil.example"}}}

InitPipeline ==
    /\ conf \in PipelineConfs
    /\ ring = Ring(<<"P1">>, <<>>)
    /\ now = 0
    /\ node = [n \in Nodes |-> EmptyDict]
    /\ node_timings = InitialTimings
    /\ NoCalls
    /\ IdleFrame
    /\ env \in RequestEnvs
    /\ entry_env = env
    /\ rq_pc = "wsgi"
    /\ controller = NoControllerInstance
    /\ handler = EmptyDict
    /\ response = NoResponse
    /\ events = <<>>
    /\ passes = 1

NextPipeline ==
    \/ Call
    \/ HandleRequest
    \/ AuthorizeReturns
    \/ HandlerReturns
    \/ Reenter

SpecPipeline == InitPipeline /\ [][NextPipeline]_vars

(***************************************************************************)
(* Properties of iter_nodes, checked under Spec.                           *)
(***************************************************************************)
\* invariant 1 of the data model: errors above the limit, the last of them
\* within the last error_suppression_interval seconds
Suppressed(d, t) ==
    /\ "errors" \in DOMAIN d
    /\ d["errors"] > conf.error_suppression_limit
    /\ "last_error" \in DOMAIN d => d["last_error"] >= t - conf.error_suppression_interval

Max(a, b) == IF a >= b THEN a ELSE b

Range(s) == {s[i] : i \in 1..Len(s)}

Suspended == it_pc \in {"primary", "handoff"}

\* the yielded nodes that counted against the budget
Counted == Len(yielded) - replaced - (IF Suspended THEN 1 ELSE 0)

\* C1: at the step that yields a node, primary or handoff, the node is not
\* suppressed, whatever errors were recorded and however the clock moved
\* since the primaries were sorted.
C1_YieldedNotSuppressed ==
    [][Len(yielded') > Len(yielded)
       => ~Suppressed(node'[yielded'[Len(yielded')]], now')]_vars

\* a handoff is out after the first primary was yielded and a later
\* primary, suppressed by then, was passed over
C1_Witness ==
    /\ it_pc = "handoff"
    /\ Len(primary_nodes) = 2
    /\ yielded[1] = primary_nodes[1]
    /\ primary_nodes[2] \in skipped
    /\ Suppressed(node[primary_nodes[2]], now)

\* C2 as stated: one iter_nodes call yields at most request_node_count(ring)
\* nodes.
C2_AtMostBudget == Len(yielded) <= request_node_count(ring)

\* C2 amended: the yielded nodes number at most max(1, request_node_count)
\* plus the yielded nodes found error limited when the iterator was resumed.
C2_AtMostBudgetPlusReplaced ==
    Len(yielded) <= Max(1, request_node_count(ring)) + replaced

\* more nodes than the budget are out, one of them in place of a node that
\* was error limited when the consumer came back
C2_Witness ==
    /\ Suspended
    /\ request_node_count(ring) >= 1
    /\ replaced >= 1
    /\ Len(yielded) > request_node_count(ring)

\* C3: resuming after a yield, a node that is suppressed leaves nodes_left
\* as it was and another node is drawn if the sources hold one; a node that
\* is not suppressed takes exactly one from nodes_left; nodes_left is the
\* budget less the yielded nodes that were not suppressed at resume, and the
\* iterator ends with sources left only when those have reached the budget.
C3_RecheckAfterYield ==
    /\ [][(ResumePrimary \/ ResumeHandoff)
          => IF Suppressed(node[it_node], now)
             THEN /\ nodes_left' = nodes_left
                  /\ replaced' = replaced + 1
                  /\ \/ Len(yielded') = Len(yielded) + 1
                     \/ it_pc' = "done" /\ handoff_nodes' = <<>>
             ELSE /\ nodes_left' = nodes_left - 1
                  /\ replaced' = replaced]_vars
    /\ [](it_pc # "idle"
          => nodes_left = request_node_count(ring) - Counted)
    /\ [](it_pc = "done"
          /\ (handoff_nodes # <<>> \/ it_idx < Len(primary_nodes))
          => Counted >= request_node_count(ring))

\* the iterator ended on its budget after one extra node was drawn
C3_Witness ==
    /\ it_pc = "done"
    /\ replaced = 1
    /\ nodes_left = 0
    /\ request_node_count(ring) >= 1
    /\ Len(yielded) = request_node_count(ring) + 1

\* C4: with request_node_count(ring) = 0 no node is yielded.
C4_ZeroBudgetYieldsNothing ==
    request_node_count(ring) = 0 => yielded = <<>>

\* the primaries and handoffs of the source the generator was given
SourcePrimaries ==
    Range(SubSeq(it_source, 1, Min(Len(ring.part_nodes), Len(it_source))))

SourceHandoffs ==
    SubSeq(it_source, Min(Len(ring.part_nodes), Len(it_source)) + 1,
           Len(it_source))

PositionIn(s, x) == CHOOSE i \in 1..Len(s) : s[i] = x

\* C5: the yielded primaries come before the yielded handoffs and are
\* distinct members of the source's first k items; a handoff is out only
\* when every primary was yielded or passed over, and a node is passed over
\* only when suppressed; the handoffs come in the source's order; and when
\* no error is ever recorded and the budget is at least 1, the output is a
\* permutation of the primaries followed by the handoffs, cut at the budget.
C5_PrimariesThenHandoffs ==
    /\ [](it_pc # "idle" =>
            /\ Range(yielded) \subseteq Range(it_source)
            /\ \A i, j \in 1..Len(yielded) :
                 i < j => /\ yielded[i] # yielded[j]
                          /\ yielded[j] \in SourcePrimaries
                             => yielded[i] \in SourcePrimaries
                          /\ (yielded[i] \notin SourcePrimaries
                              /\ yielded[j] \notin SourcePrimaries)
                             => PositionIn(SourceHandoffs, yielded[i])
                                < PositionIn(SourceHandoffs, yielded[j])
            /\ Range(yielded) \ SourcePrimaries # {}
               => SourcePrimaries \subseteq Range(yielded) \cup skipped
            /\ Range(primary_nodes) = SourcePrimaries
            /\ Len(primary_nodes) = Cardinality(SourcePrimaries)
            /\ (it_pc = "done" /\ error_calls = 0
                /\ request_node_count(ring) >= 1)
               => yielded = SubSeq(primary_nodes \o SourceHandoffs, 1,
                                   Min(request_node_count(ring),
                                       Len(it_source))))
    /\ [][\A n \in skipped' \ skipped : Suppressed(node[n], now)]_vars

\* both primaries were dealt with, one of them passed over as suppressed,
\* and the two handoffs followed in ring order
C5_Witness ==
    /\ it_pc = "done"
    /\ it_source = RingChain
    /\ skipped \cap SourcePrimaries # {}
    /\ Len(yielded) = 3
    /\ yielded[1] \in SourcePrimaries
    /\ yielded[2] = "H1"
    /\ yielded[3] = "H2"

(***************************************************************************)
(* The second end-to-end scenario, checked under SpecScenario.             *)
(***************************************************************************)
\* node_iter is None and P2 holds errors = 11, last_error = now
ScenarioTwo ==
    /\ it_source = RingChain
    /\ node["P2"] = [errors |-> 11, last_error |-> 0]

\* C6 as stated: the iterator yields exactly 5 nodes, P1 and P3 and then
\* H1, H2, H3, and handoff_count is incremented exactly once.
C6_FiveNodesOneHandoffCount ==
    (it_pc = "done" /\ ScenarioTwo)
    => /\ Len(yielded) = 5
       /\ {yielded[1], yielded[2]} = {"P1", "P3"}
       /\ SubSeq(yielded, 3, 5) = <<"H1", "H2", "H3">>
       /\ metrics.handoff_count = 1

\* C6 amended: the iterator yields P1 and P3 and then the ring's handoffs in
\* ring order until the budget of 6 is spent, H1 to H4 (all of them when the
\* ring holds only three), and handoff_count is incremented once for each
\* handoff yielded when log_handoffs is on, and never when it is off.
C6_BudgetSpentOnHandoffs ==
    (it_pc = "done" /\ ScenarioTwo)
    => LET n == Min(4, Len(ring.more_nodes))
       IN /\ Len(yielded) = 2 + n
          /\ {yielded[1], yielded[2]} = {"P1", "P3"}
          /\ SubSeq(yielded, 3, 2 + n) = SubSeq(ring.more_nodes, 1, n)
          /\ metrics.handoff_count = (IF conf.log_handoffs THEN n ELSE 0)

\* the scenario ran to its end on a ring of five handoffs: six nodes, H4 last
C6_Witness ==
    /\ it_pc = "done"
    /\ ScenarioTwo
    /\ Len(ring.more_nodes) = 5
    /\ conf.log_handoffs
    /\ Len(yielded) = 6
    /\ yielded[6] = "H4"
    /\ metrics.handoff_count = 4

(***************************************************************************)
(* Properties of the node-health operations, checked under SpecHealth,     *)
(* where last_call holds the last call, the dictionary it found and the    *)
(* time it ran at, and the node's dictionary is as that call left it.      *)
(***************************************************************************)
Annotated(d) == {"errors", "last_error"} \subseteq DOMAIN d

ErrorsOf(d) == IF "errors" \in DOMAIN d THEN d["errors"] ELSE 0

\* C7: error_limited on an annotated node at a time later than last_error +
\* error_suppression_interval returns false and removes both annotations,
\* whatever the count; at any time up to that it leaves them as they are.
C7_ExpiryOnRead ==
    (last_call.op = "error_limited" /\ Annotated(last_call.before))
    => IF last_call.time > last_call.before["last_error"]
                           + conf.error_suppression_interval
       THEN /\ ~last_call.limited
            /\ node[last_call.node] = EmptyDict
       ELSE node[last_call.node] = last_call.before

\* a count above limit + 1 went with the expired window
C7_Witness ==
    /\ last_call.op = "error_limited"
    /\ Annotated(last_call.before)
    /\ last_call.before["errors"] > conf.error_suppression_limit + 1
    /\ last_call.time > last_call.before["last_error"]
                        + conf.error_suppression_interval
    /\ node[last_call.node] = EmptyDict

\* C8: error_limited returns false on a node whose errors are at most the
\* limit (or absent), and true on one whose errors are above it inside the
\* window; error_occurred adds exactly one to the count (absent counts 0),
\* so that an is_suppressed right after it is true exactly when the new
\* count is above the limit: the limit-th error from a clean node leaves it
\* unsuppressed, the next one suppresses it.
C8_StrictThreshold ==
    /\ (last_call.op = "error_limited"
        /\ ErrorsOf(last_call.before) <= conf.error_suppression_limit)
       => ~last_call.limited
    /\ (last_call.op = "error_limited" /\ Annotated(last_call.before)
        /\ last_call.before["errors"] > conf.error_suppression_limit
        /\ last_call.time <= last_call.before["last_error"]
                             + conf.error_suppression_interval)
       => last_call.limited
    /\ last_call.op = "error_occurred"
       => /\ Annotated(node[last_call.node])
          /\ node[last_call.node]["errors"] = ErrorsOf(last_call.before) + 1
          /\ error_limited(node[last_call.node], last_call.time).limited
             <=> (ErrorsOf(last_call.before) + 1
                  > conf.error_suppression_limit)

\* the error after the limit-th one has just been recorded
C8_Witness ==
    /\ last_call.op = "error_occurred"
    /\ ErrorsOf(last_call.before) = conf.error_suppression_limit
    /\ node[last_call.node]["errors"] = conf.error_suppression_limit + 1
    /\ error_limited(node[last_call.node], last_call.time).limited

\* C9: after error_limit the node holds errors = limit + 1 and last_error =
\* the time of the call, and error_limited at that same time returns true
\* and changes nothing, whatever the node held before.
C9_ForceSuppress ==
    last_call.op = "error_limit"
    => /\ node[last_call.node]
          = [errors |-> conf.error_suppression_limit + 1,
             last_error |-> last_call.time]
       /\ error_limited(node[last_call.node], last_call.time)
          = [limited |-> TRUE, node |-> node[last_call.node]]

\* error_limit ran on a node that held more errors than limit + 1
C9_Witness ==
    /\ last_call.op = "error_limit"
    /\ ErrorsOf(last_call.before) > conf.error_suppression_limit + 1
    /\ node[last_call.node]["errors"] = conf.error_suppression_limit + 1

\* C10 as stated: exception_occurred adds one to errors (absent counts 0)
\* and sets last_error to the time of the call, as error_occurred does.
C10_ExceptionCountsAsError ==
    last_call.op = "exception_occurred"
    => /\ Annotated(node[last_call.node])
       /\ node[last_call.node]["errors"] = ErrorsOf(last_call.before) + 1
       /\ node[last_call.node]["last_error"] = last_call.time

\* C10 amended: exception_occurred only logs; it leaves the node's errors
\* and last_error as they were, so recorded exceptions never suppress a
\* node.
C10_ExceptionLeavesHealth ==
    last_call.op = "exception_occurred"
    => node[last_call.node] = last_call.before

\* an exception was recorded on a node one error short of suppression, and
\* the node is still not error limited
C10_Witness ==
    /\ last_call.op = "exception_occurred"
    /\ Annotated(last_call.before)
    /\ last_call.before["errors"] = conf.error_suppression_limit
    /\ last_call.time = last_call.before["last_error"]
    /\ ~error_limited(node[last_call.node], last_call.time).limited

(***************************************************************************)
(* Properties of the request pipeline, checked under SpecPipeline.         *)
(***************************************************************************)
CountOf(s, x) == Cardinality({i \in 1..Len(s) : s[i] = x})

\* what the pipeline did since the environment last entered __call__
PassEvents ==
    LET calls == {i \in 1..Len(events) : events[i] = "__call__"}
    IN IF calls = {} THEN <<>>
       ELSE SubSeq(events, (CHOOSE i \in calls : \A j \in calls : j <= i) + 1,
                   Len(events))

\* the request is past __call__ on its current pass
InPass == rq_pc \in {"handle_request", "authorize", "handler", "responded"}

Did(x) == InPass /\ x \in Range(PassEvents)

\* the handler of the request's method asks for denials to be delayed
DelaysDenial ==
    LET m == env[K_REQUEST_METHOD]
    IN /\ m \in DOMAIN ControllerMethods
       /\ "delay_denial" \in DOMAIN ControllerMethods[m]
       /\ ControllerMethods[m]["delay_denial"]

\* C11: the pipeline invokes the hook only in handle_request, only when
\* swift.authorize is in the environment at the authorization step, and
\* then once: a run of handle_request that reaches that step (it goes on to
\* the hook or to the handler) invokes the hook exactly when it is
\* installed, and no pass invokes it twice; once the hook has returned no
\* response it is gone from the environment, while the handler runs and
\* afterwards.
C11_AuthorizeOnceThenRemoved ==
    /\ [][CountOf(events', "swift.authorize") # CountOf(events, "swift.authorize")
          => /\ HandleRequest
             /\ K_AUTHORIZE \in DOMAIN env
             /\ CountOf(events', "swift.authorize")
                = CountOf(events, "swift.authorize") + 1]_vars
    /\ [][(HandleRequest /\ rq_pc' \in {"authorize", "handler"})
          => (rq_pc' = "authorize" <=> K_AUTHORIZE \in DOMAIN env)]_vars
    /\ [](InPass => CountOf(PassEvents, "swift.authorize") <= 1)
    /\ [](Did("authorized")
          => /\ rq_pc \in {"handler", "responded"}
             /\ Did("handler")
             /\ K_AUTHORIZE \notin DOMAIN env)

\* the handler is running after the hook, installed upstream, authorized
\* the request, and the hook is no longer in the environment
C11_Witness ==
    /\ rq_pc = "handler"
    /\ K_AUTHORIZE \in DOMAIN entry_env
    /\ PassEvents[Len(PassEvents) - 2] = "swift.authorize"
    /\ PassEvents[Len(PassEvents) - 1] = "authorized"
    /\ K_AUTHORIZE \notin DOMAIN env

\* C12: after the hook returned a response, a handler without a true
\* delay_denial is never dispatched: handle_request returns the denial and
\* swift.orig_req_method is not in the environment; a handler with a true
\* delay_denial is dispatched with the hook still in the environment.
C12_DenialUnlessDelayed ==
    Did("denied")
    => IF DelaysDenial
       THEN /\ rq_pc \in {"handler", "responded"}
            /\ Did("handler")
            /\ K_AUTHORIZE \in DOMAIN env
            /\ env[K_ORIG_REQ_METHOD] = env[K_REQUEST_METHOD]
       ELSE /\ rq_pc = "responded"
            /\ response = Response(401, "Unauthorized")
            /\ ~Did("handler")
            /\ K_ORIG_REQ_METHOD \notin DOMAIN env

\* a POST, whose handler has no delay_denial, was denied and answered with
\* the hook's response
C12_Witness ==
    /\ rq_pc = "responded"
    /\ Did("denied")
    /\ env[K_REQUEST_METHOD] = "POST"
    /\ response.status = 401
    /\ ~Did("handler")

X_TRANS_ID == HeaderKey(<<"x", "trans", "id">>)

\* C13 as stated: after every request the pipeline answered, swift.trans_id
\* is in the environment and x-trans-id equals it, and an id that was there
\* on entry is the one that is there afterwards.
C13_TransIdOnEveryRequest ==
    rq_pc = "responded"
    => /\ K_TRANS_ID \in DOMAIN env
       /\ X_TRANS_ID \in DOMAIN env
       /\ env[X_TRANS_ID] = env[K_TRANS_ID]
       /\ K_TRANS_ID \in DOMAIN entry_env
          => env[K_TRANS_ID] = entry_env[K_TRANS_ID]

\* C13 amended: once the controller is instantiated swift.trans_id is in
\* the environment and x-trans-id equals it; an id that was there on entry
\* is kept and none is generated on that pass, otherwise exactly one is;
\* over all passes of one environment at most one id is generated; and a
\* request answered before the controller is instantiated (400, 412, 404,
\* 403) leaves swift.trans_id and x-trans-id as they were on entry.
C13_TransIdOncePastChecks ==
    /\ CountOf(events, "generate_trans_id") <= 1
    /\ Did("controller")
       => /\ K_TRANS_ID \in DOMAIN env
          /\ X_TRANS_ID \in DOMAIN env
          /\ env[X_TRANS_ID] = env[K_TRANS_ID]
          /\ controller.trans_id = env[K_TRANS_ID]
          /\ IF K_TRANS_ID \in DOMAIN entry_env
             THEN /\ env[K_TRANS_ID] = entry_env[K_TRANS_ID]
                  /\ ~Did("generate_trans_id")
             ELSE CountOf(PassEvents, "generate_trans_id") = 1
    /\ (rq_pc = "responded" /\ ~Did("controller"))
       => /\ response.status \in {400, 412, 404, 403}
          /\ \A k \in {K_TRANS_ID, X_TRANS_ID} :
               /\ k \in DOMAIN env <=> k \in DOMAIN entry_env
               /\ k \in DOMAIN env => env[k] = entry_env[k]

\* the second pass of an environment found the id the first pass generated
\* and kept it, over the client's own X-Trans-Id
C13_Witness ==
    /\ passes = 2
    /\ rq_pc = "responded"
    /\ Did("controller")
    /\ entry_env[K_TRANS_ID] = generate_trans_id
    /\ env[X_TRANS_ID] = generate_trans_id
    /\ CountOf(events, "generate_trans_id") = 1
    /\ ~Did("generate_trans_id")

\* the header names of the model
HeaderNames == UNION HeaderSets \cup {<<"Host">>}

\* the name begins with x-backend-, whatever its case
BeginsXBackend(name) ==
    Len(name) >= 3 /\ Lower(name[1]) = "x" /\ Lower(name[2]) = "backend"

BackendKeys == {HeaderKey(h) : h \in {n \in HeaderNames : BeginsXBackend(n)}}

\* C14: from the return of the header loop of __call__ on, through the
\* instantiation of the controller and the handler, the environment holds
\* no header whose name begins with x-backend- in any case; the step that
\* strips them leaves every other entry as it was (and adds at most
\* x-auth-token); and stripping the stripped environment changes nothing.
C14_BackendHeadersStripped ==
    /\ [](InPass => DOMAIN env \cap BackendKeys = {})
    /\ [][Call => /\ \A k \in DOMAIN env \ BackendKeys :
                       k \in DOMAIN env' /\ env'[k] = env[k]
                  /\ DOMAIN env' \subseteq
                       DOMAIN env \cup {HeaderKey(<<"x", "auth", "token">>)}
                  /\ strip_backend_headers(env') = env']_vars
    /\ [](InPass => strip_backend_headers(env) = env)

\* the handler runs on an environment that came with X-Backend-Id and
\* X-BACKEND- and still holds X-Backends-Id and x-backend
C14_Witness ==
    /\ rq_pc = "handler"
    /\ passes = 1
    /\ {HeaderKey(<<"X", "Backend", "Id">>), HeaderKey(<<"X", "BACKEND", "">>)}
       \subseteq DOMAIN entry_env
    /\ {HeaderKey(<<"X", "BACKENDS", "Id">>), HeaderKey(<<"x", "backend">>)}
       \subseteq DOMAIN env
    /\ DOMAIN env \cap BackendKeys = {}

\* the path of the request: SCRIPT_NAME + PATH_INFO as __call__ found them
EntryPath == ReqPath(entry_env)

\* the path is /info or starts with /info/
UnderInfo(p) == Len(p) >= 2 /\ p[1] = "" /\ p[2] = "info"

\* C15 as stated: a request whose path is /info or starts with /info/ gets
\* the Info controller.
C15_InfoWithSegments ==
    (Did("controller") /\ UnderInfo(EntryPath))
    => controller.class = "InfoController"

\* C15 amended: only the bare path /info gets the Info controller; a path
\* with further segments is split like any other, 'info' being its version:
\* /info/endpoints gets the Account controller for the account 'endpoints'.
C15_OnlyBareInfo ==
    Did("controller")
    => /\ controller.class = "InfoController" <=> EntryPath = <<"", "info">>
       /\ EntryPath = <<"", "info", "endpoints">>
          => /\ controller.class = "AccountController"
             /\ controller.path_parts.version = <<"info">>
             /\ controller.path_parts.account_name = <<"endpoints">>

\* GET /info/endpoints reached the handler of an Account controller
C15_Witness ==
    /\ rq_pc = "handler"
    /\ EntryPath = <<"", "info", "endpoints">>
    /\ controller.class = "AccountController"

\* /VERSION[/ACCOUNT[/CONTAINER[/OBJECT]]]: a leading slash and a version
WellFormed(p) == Len(p) >= 2 /\ p[1] = "" /\ p[2] # ""

\* the i-th segment of the path is there and not empty; the object is what
\* follows the fourth slash
NonEmpty(p, i) ==
    IF i < 5 THEN Len(p) >= i /\ p[i] # ""
    ELSE Len(p) >= 5 /\ SubSeq(p, 5, Len(p)) # <<"">>

\* the case split of the claim on account, container and object
Classified(p) ==
    IF NonEmpty(p, 3) /\ NonEmpty(p, 4) /\ NonEmpty(p, 5)
    THEN "ObjectController"
    ELSE IF NonEmpty(p, 3) /\ NonEmpty(p, 4) /\ ~NonEmpty(p, 5)
    THEN "ContainerController"
    ELSE IF NonEmpty(p, 3) /\ ~NonEmpty(p, 4) /\ ~NonEmpty(p, 5)
    THEN "AccountController"
    ELSE NoController

\* the request passed the Content-Length and encoding checks
PastEncoding ==
    /\ rq_pc \in {"authorize", "handler", "responded"}
    /\ response.status # 400
    /\ response # Response(412, "Invalid UTF8 or contains NULL")

\* the Host header, without its port, is one of deny_host_headers
HostDenied == entry_env[HeaderKey(<<"Host">>)][1] \in conf.deny_host_headers

\* C16: a request that passed the Content-Length and encoding checks, its
\* path not the reserved /info, is classified by the case split: a path
\* that is not well formed is answered 404; a well-formed path with no
\* case is answered 412 'Bad URL'; every other gets the controller of its
\* case, with the segments as the path dictionary, unless its Host is
\* denied.
C16_ClassificationCases ==
    (PastEncoding /\ EntryPath # <<"", "info">>)
    => IF ~WellFormed(EntryPath)
       THEN response = Response(404, "") /\ ~Did("controller")
       ELSE IF Classified(EntryPath) = NoController
       THEN response = Response(412, "Bad URL") /\ ~Did("controller")
       ELSE IF HostDenied
       THEN response = Response(403, "Invalid host header")
       ELSE /\ Did("controller")
            /\ controller.class = Classified(EntryPath)
            /\ controller.path_parts.version = <<EntryPath[2]>>
            /\ controller.path_parts.account_name = <<EntryPath[3]>>

\* /v1/a//o, an object after an empty container, was answered 412 Bad URL
C16_Witness ==
    /\ rq_pc = "responded"
    /\ EntryPath = <<"", "v1", "a", "", "o">>
    /\ response = Response(412, "Bad URL")

\* the controller has no public handler for the request's method
NoPublicHandler ==
    LET m == env[K_REQUEST_METHOD]
    IN \/ m \notin DOMAIN ControllerMethods
       \/ "publicly_accessible" \notin DOMAIN ControllerMethods[m]

\* C17: once the controller is instantiated, a request whose method has no
\* handler, or one not marked publicly_accessible, is answered 405 with the
\* controller's allowed_methods in Allow: the hook is not invoked, the
\* handler not dispatched, and SCRIPT_NAME, PATH_INFO and
\* swift.orig_req_method are as they were on entry; no other request is
\* answered 405.
C17_MethodNotAllowed ==
    /\ (Did("controller") /\ NoPublicHandler)
       => /\ rq_pc = "responded"
          /\ response = [status |-> 405, body |-> "",
                          allow |-> {"GET", "PUT", "POST"}]
          /\ ~Did("swift.authorize")
          /\ ~Did("path_info_pop")
          /\ ~Did("handler")
          /\ env[K_SCRIPT_NAME] = entry_env[K_SCRIPT_NAME]
          /\ env[K_PATH_INFO] = entry_env[K_PATH_INFO]
          /\ K_ORIG_REQ_METHOD \notin DOMAIN env
    /\ (InPass /\ response.status = 405)
       => Did("controller") /\ NoPublicHandler

\* HEAD /v1/a, the hook installed: HEAD is defined but not public
C17_Witness ==
    /\ rq_pc = "responded"
    /\ passes = 1
    /\ env[K_REQUEST_METHOD] = "HEAD"
    /\ EntryPath = <<"", "v1", "a">>
    /\ K_AUTHORIZE \in DOMAIN env
    /\ response.status = 405
    /\ env[K_PATH_INFO] = <<"", "v1", "a">>

\* the response of the first check of the claim's order that the request
\* fails, NoResponse when it fails none of them
FirstFailing ==
    IF K_CONTENT_LENGTH \in DOMAIN entry_env /\ entry_env[K_CONTENT_LENGTH] < 0
    THEN Response(400, "Invalid Content-Length")
    ELSE IF Range(entry_env[K_PATH_INFO]) \cap BadSegments # {}
    THEN Response(412, "Invalid UTF8 or contains NULL")
    ELSE IF ~WellFormed(EntryPath)
    THEN Response(404, "")
    ELSE IF EntryPath # <<"", "info">> /\ Classified(EntryPath) = NoController
    THEN Response(412, "Bad URL")
    ELSE IF HostDenied
    THEN Response(403, "Invalid host header")
    ELSE NoResponse

\* the place of each event in the order of the pipeline
Rank(x) ==
    CASE x = "controller" -> 1
      [] x = "generate_trans_id" -> 2
      [] x = "path_info_pop" -> 3
      [] x = "swift.authorize" -> 4
      [] x \in {"authorized", "denied", "raises"} -> 5
      [] x = "handler" -> 6

\* C18: a request that fails one of the checks Content-Length, encoding,
\* malformed path, unclassifiable path, Host is answered by the first of
\* them it fails, and for it no controller is instantiated, no hook invoked
\* and no handler dispatched; every other request gets its controller
\* first, then the transaction id, then the method lookup (405 ends the
\* pass there), the version pop, the hook and the handler, in that order.
C18_FirstFailingCheckDecides ==
    rq_pc \in {"authorize", "handler", "responded"}
    => IF FirstFailing # NoResponse
       THEN /\ rq_pc = "responded"
            /\ response = FirstFailing
            /\ controller = NoControllerInstance
            /\ PassEvents = <<>>
       ELSE /\ PassEvents[1] = "controller"
            /\ \A i, j \in 1..Len(PassEvents) :
                 i < j => Rank(PassEvents[i]) < Rank(PassEvents[j])
            /\ response.status = 405
               => Range(PassEvents) \subseteq {"controller", "generate_trans_id"}

\* a request with a malformed path, a denied Host and the hook installed
\* was answered 404
C18_Witness ==
    /\ rq_pc = "responded"
    /\ ~WellFormed(EntryPath)
    /\ HostDenied
    /\ K_AUTHORIZE \in DOMAIN env
    /\ response = Response(404, "")
    /\ PassEvents = <<>>

(***************************************************************************)
(* Termination of iter_nodes, checked under SpecLive, and its metrics,     *)
(* checked under SpecScenario.                                             *)
(***************************************************************************)
\* the items the generator took from node_iter so far
Consumed ==
    SubSeq(it_source, 1, Len(it_source) - Len(handoff_nodes))

YieldedHandoffs ==
    Cardinality({i \in 1..Len(yielded) : yielded[i] \notin Range(primary_nodes)})

\* C20 as stated: handoff_count is emitted once for each handoff yielded,
\* log_handoffs on or off, and handoff_all_count once, when the handoffs
\* yielded reach the number of primaries.
C20_HandoffCountAlways ==
    it_pc # "idle"
    => /\ metrics.handoff_count = YieldedHandoffs
       /\ metrics.handoff_all_count
          = (IF YieldedHandoffs >= Len(primary_nodes) THEN 1 ELSE 0)

\* C20 amended: with log_handoffs on, handoff_count is emitted once for
\* each handoff yielded and handoff_all_count once, with the handoff that
\* makes the handoffs yielded equal to len(primary_nodes); with
\* log_handoffs off neither is ever emitted.
C20_HandoffCountWhenLogged ==
    /\ [](it_pc # "idle"
          => /\ handoffs = YieldedHandoffs
             /\ metrics.handoff_count
                = (IF conf.log_handoffs THEN YieldedHandoffs ELSE 0)
             /\ metrics.handoff_all_count
                = (IF conf.log_handoffs /\ YieldedHandoffs >= Len(primary_nodes)
                   THEN 1 ELSE 0))
    /\ [][metrics'.handoff_all_count # metrics.handoff_all_count
          => /\ conf.log_handoffs
             /\ Len(yielded') = Len(yielded) + 1
             /\ handoffs' = Len(primary_nodes')]_vars

\* four handoffs were yielded with log_handoffs off and nothing was counted
C20_Witness ==
    /\ it_pc = "done"
    /\ ~conf.log_handoffs
    /\ YieldedHandoffs = 4
    /\ metrics = [handoff_count |-> 0, handoff_all_count |-> 0]

(***************************************************************************)
(* The node-health table as a whole, checked under SpecHealth: what every  *)
(* sequence of error_limited, error_limit, error_occurred and              *)
(* exception_occurred calls and clock advances leaves on a node.           *)
(***************************************************************************)
\* both annotations or neither, and last_error not later than time()
PairedAndPast(d) ==
    /\ ("errors" \in DOMAIN d) <=> ("last_error" \in DOMAIN d)
    /\ "last_error" \in DOMAIN d => d["last_error"] <= now

\* some annotation of node n is gone after the step
Removes(n) == DOMAIN node'[n] # DOMAIN node[n]
              /\ DOMAIN node'[n] \subseteq DOMAIN node[n]

OnlyErrorLimitedRemoves ==
    \A n \in Nodes :
        Removes(n) => /\ last_call'.op = "error_limited"
                      /\ last_call'.node = n

Stale(d, t) ==
    /\ Annotated(d)
    /\ d["last_error"] < t - conf.error_suppression_interval

\* node n loses its annotations in the step
Restarts(n) == Annotated(node[n]) /\ node'[n] = EmptyDict

\* C22: error_occurred (record_error) does not prune stale state. On a node
\* whose last_error is older than error_suppression_interval and which
\* error_limited has not inspected since, it adds 1 to the stale count and
\* sets last_error to the time of the call, so a node holding errors = limit
\* from an expired window is error limited after this single new error; a
\* count is dropped only by an error_limited call made after the window
\* expired, and only then does the next error_occurred count from 0.
C22_StaleCountKept ==
    /\ [](/\ (last_call.op = "error_occurred"
              /\ Stale(last_call.before, last_call.time))
             => /\ node[last_call.node]
                   = [errors |-> last_call.before["errors"] + 1,
                      last_error |-> last_call.time]
                /\ last_call.before["errors"] = conf.error_suppression_limit
                   => error_limited(node[last_call.node],
                                    last_call.time).limited
          /\ (last_call.op = "error_occurred"
              /\ node[last_call.node]["errors"] = 1)
             => ErrorsOf(last_call.before) = 0)
    /\ [][\A n \in Nodes :
            Restarts(n) => /\ last_call'.op = "error_limited"
                           /\ last_call'.node = n
                           /\ Stale(node[n], now)]_vars

\* a node held errors = limit from an expired window, nobody inspected it,
\* and one new error has left it error limited
C22_Witness ==
    /\ last_call.op = "error_occurred"
    /\ Stale(last_call.before, last_call.time)
    /\ last_call.before["errors"] = conf.error_suppression_limit
    /\ node[last_call.node]["errors"] = conf.error_suppression_limit + 1
    /\ node[last_call.node]["last_error"] = last_call.time
    /\ error_limited(node[last_call.node], last_call.time).limited

====
